---- MODULE Spec2Model ----
(***************************************************************************)
(* A model of insar_mapper.py: the InSAR target table, the row filters,   *)
(* the interactive-map renderer with its exports, and the command-line    *)
(* pipeline of main().                                                    *)
(*                                                                         *)
(* Strings whose content the code inspects (substring tests, sorting,     *)
(* case folding) are sequences of one-character strings.  A pandas        *)
(* DataFrame is a record of its column names, its index labels and its    *)
(* rows; a row is a function from column name to cell value.              *)
(***************************************************************************)
EXTENDS Integers, Sequences, FiniteSets, TLC

VARIABLES
    df,               \* the DataFrame currently held (the caller's / main's df)
    prev,             \* the DataFrame handed to the last filter call
    last,             \* the last filter call: its name and arguments
    err,              \* the exception that ended the run, "none" while running
    stats,            \* what log_filter_stats printed last
    pc,               \* position in main() / plot_insar_points_interactive()
    args,             \* the parsed command line (main), the call's keywords (plot)
    sheet,            \* the 'insarTargets' sheet of the Excel file
    trace,            \* the stages main() has entered, in order
    csv,              \* the CSV file written by this run (Absent before)
    geojson,          \* the GeoJSON file written by this run (Absent before)
    html,             \* the HTML file written by this run (Absent before)
    ret,              \* what plot_insar_points_interactive returned
    owner_color_map,  \* plot: owner -> colour
    instr_icon_map,   \* plot: instrument class -> marker shape
    m,                \* plot: the folium map under construction
    msg               \* plot: the error line it printed ("none" when it printed none)

vars == <<df, prev, last, err, stats, pc, args, sheet, trace, csv, geojson, html,
          ret, owner_color_map, instr_icon_map, m, msg>>

(***************************************************************************)
(* Bounds of the model.                                                    *)
(***************************************************************************)
\* the longest table handed to the filter functions
MaxRows == 2
\* the most distinct owners in a table handed to the plot function
MaxOwners == 12
\* the most data rows in the sheet main() loads
MaxSheetRows == 2

(***************************************************************************)
(* Strings.                                                                *)
(***************************************************************************)
Digits == <<"0", "1", "2", "3", "4", "5", "6", "7", "8", "9">>
UpperCase == <<"A", "B", "C", "D", "E", "F", "G", "H", "I", "J", "K", "L", "M",
               "N", "O", "P", "Q", "R", "S", "T", "U", "V", "W", "X", "Y", "Z">>
LowerCase == <<"a", "b", "c", "d", "e", "f", "g", "h", "i", "j", "k", "l", "m",
               "n", "o", "p", "q", "r", "s", "t", "u", "v", "w", "x", "y", "z">>
\* the characters that occur, in the order of their code points
Chars == <<",">> \o Digits \o UpperCase \o LowerCase

\* a missing cell (float NaN in an object column)
NaN == <<"NaN">>

\* str(x) as astype(str) applies it cell by cell: NaN becomes the text "nan"
AsStr(v) == IF v = NaN THEN <<"n", "a", "n">> ELSE v

\* Python's `s in x` on two strings
IsSubstr(s, x) == \E i \in 0..(Len(x) - Len(s)) : SubSeq(x, i + 1, i + Len(s)) = s

LowerChar(c) ==
    IF \E k \in DOMAIN UpperCase : UpperCase[k] = c
    THEN LowerCase[CHOOSE k \in DOMAIN UpperCase : UpperCase[k] = c]
    ELSE c

ToLower(x) == [i \in DOMAIN x |-> LowerChar(x[i])]

\* the same test with case=False left out
str_contains_case(x, pat) == IsSubstr(pat, x)

\* Series.str.contains(pat, case=False, na=False) for a pattern of plain letters
str_contains_nocase(x, pat) == IsSubstr(ToLower(pat), ToLower(x))

\* Series.isin(values), for one cell
isin(v, values) == \E i \in DOMAIN values : values[i] = v

\* all(...) written for any(...)
all_in(values, x) == \A i \in DOMAIN values : IsSubstr(values[i], x)

\* any(t in x for t in values)
any_in(values, x) == \E i \in DOMAIN values : IsSubstr(values[i], x)

Ord(c) == CHOOSE i \in DOMAIN Chars : Chars[i] = c

\* Python's `a < b` on two strings: lexicographic by code point
StrLess(a, b) ==
    \E k \in 0..Len(a) :
        /\ k <= Len(b)
        /\ \A j \in 1..k : a[j] = b[j]
        /\ \/ k = Len(a) /\ k < Len(b)
           \/ k < Len(a) /\ k < Len(b) /\ Ord(a[k + 1]) < Ord(b[k + 1])

(***************************************************************************)
(* The values of the database.                                             *)
(***************************************************************************)
sCR == <<"C", "R">>
sCR123 == <<"C", "R", "1", "2", "3">>
sTR == <<"T", "R">>
sCRTR == <<"C", "R", "T", "R">>
sIGRS == <<"I", "G", "R", "S">>
sTUD == <<"T", "U", "D">>
sKNMI == <<"K", "N", "M", "I">>
sHENGELO == <<"H", "E", "N", "G", "E", "L", "O">>
sDELFT == <<"D", "E", "L", "F", "T">>
sNLD == <<"N", "L", "D">>
sBEL == <<"B", "E", "L">>
sDEU == <<"D", "E", "U">>
sE == <<"E">>
sW == <<"W">>
sEW == <<"E", ",", "W">>
sAll == <<"A", "l", "l">>
sALL == <<"A", "L", "L">>
sS1A == <<"S", "1", "A">>
sRS2 == <<"R", "S", "2">>
sS1ARS2 == <<"S", "1", "A", ",", "R", "S", "2">>
sTSX == <<"T", "S", "X">>
sa == <<"a">>
sDLR == <<"D", "L", "R">>
sESA == <<"E", "S", "A">>
sGFZ == <<"G", "F", "Z">>
sBKG == <<"B", "K", "G">>
sIGN == <<"I", "G", "N">>
sNGI == <<"N", "G", "I">>
sROB == <<"R", "O", "B">>
sRWS == <<"R", "W", "S">>
sSHN == <<"S", "H", "N">>
sUPC == <<"U", "P", "C">>
sASI == <<"A", "S", "I">>
sTU == <<"T", "U">>
sETRS == <<"E", "T", "R", "S">>

\* the sentinel of a still-active target
ActiveSentinel == 99999999

\* the columns main() asks the loader for
columns == <<"instrClass", "owner", "siteId", "countryCode", "insarStart", "insarEnd",
             "lookDir", "latitude", "longitude", "refFrame", "valid", "satSys">>

Elems(s) == {s[i] : i \in DOMAIN s}

(***************************************************************************)
(* DataFrames.                                                             *)
(***************************************************************************)
DataFrame(cols, index, rows) == [cols |-> cols, index |-> index, rows |-> rows]

HasCol(t, c) == c \in Elems(t.cols)

\* len(df)
len(t) == Len(t.rows)

\* df[mask] with a mask that carries a fresh 0-based index: pandas aligns the mask
\* to the frame by label, so the row labelled l is judged by the mask cell at
\* position l + 1, and a row whose label has no mask cell is dropped
BoolIndex_misaligned(t, mask) ==
    LET pos == SelectSeq([i \in 1..len(t) |-> i],
                         LAMBDA i : t.index[i] + 1 \in 1..len(t) /\ mask[t.index[i] + 1])
    IN [cols |-> t.cols,
        index |-> [k \in 1..Len(pos) |-> t.index[pos[k]]],
        rows |-> [k \in 1..Len(pos) |-> t.rows[pos[k]]]]

\* df[mask]: the rows whose mask cell is True, in order, index labels kept
BoolIndex(t, mask) ==
    LET pos == SelectSeq([i \in 1..len(t) |-> i], LAMBDA i : mask[i])
    IN DataFrame(t.cols,
                 [k \in 1..Len(pos) |-> t.index[pos[k]]],
                 [k \in 1..Len(pos) |-> t.rows[pos[k]]])

\* df = df.copy(); df[c] = df[c].astype(str)
AsStrCol(t, c) ==
    DataFrame(t.cols, t.index, [i \in 1..len(t) |-> [t.rows[i] EXCEPT ![c] = AsStr(@)]])

\* df.loc[:, cols]
Project(t, cols) ==
    DataFrame(cols, t.index, [i \in 1..len(t) |-> [c \in Elems(cols) |-> t.rows[i][c]]])

\* a call's outcome: the returned frame, or the exception raised
Return(t) == [df |-> t, exc |-> "none"]
Raise(e) == [exc |-> e]

log_filter_stats(df_before, df_after, filter_name) ==
    LET before == len(df_before)
        after == len(df_after)
    IN [before |-> before, after |-> after, name |-> filter_name,
        removed |-> before - after,
        \* pct as the exact fraction pctNum / pctDen (0 / 1 when before = 0)
        pctNum |-> IF before > 0 THEN after * 100 ELSE 0,
        pctDen |-> IF before > 0 THEN before ELSE 1]

(***************************************************************************)
(* The filters.                                                            *)
(***************************************************************************)
filter_valid(t) ==
    IF ~HasCol(t, "valid") THEN Raise("KeyError")
    ELSE Return(BoolIndex(t, [i \in 1..len(t) |-> t.rows[i]["valid"] = TRUE]))

\* the country filter ending in reset_index(drop=True)
filter_country_reset(t, countries) ==
    IF ~HasCol(t, "countryCode") THEN Raise("KeyError")
    ELSE LET f == BoolIndex(t, [i \in 1..len(t) |-> isin(t.rows[i]["countryCode"], countries)])
         IN Return(DataFrame(f.cols, [k \in 1..len(f) |-> k - 1], f.rows))

filter_country(t, countries) ==
    IF ~HasCol(t, "countryCode") THEN Raise("KeyError")
    ELSE Return(BoolIndex(t, [i \in 1..len(t) |-> isin(t.rows[i]["countryCode"], countries)]))

filter_active(t) ==
    IF ~HasCol(t, "insarEnd") THEN Raise("KeyError")
    ELSE Return(BoolIndex(t, [i \in 1..len(t) |-> t.rows[i]["insarEnd"] = ActiveSentinel]))

\* n copies of row i of frame d, as a list of positions
RECURSIVE Copies(_, _)
Copies(i, n) == IF n = 0 THEN <<>> ELSE <<i>> \o Copies(i, n - 1)

RECURSIVE Exploded(_, _, _)
Exploded(d, satSystems, i) ==
    IF i > len(d) THEN <<>>
    ELSE LET x == d.rows[i]["satSys"]
             n == Cardinality({j \in DOMAIN satSystems : IsSubstr(satSystems[j], x)})
         IN Copies(i, IF IsSubstr(ToLower(sAll), ToLower(x)) /\ n = 0 THEN 1 ELSE n)
            \o Exploded(d, satSystems, i + 1)

\* the satellite filter written as a join of the frame with the requested systems:
\* a row comes back once for every requested system its cell holds
filter_satSys_join(t, satSystems) ==
    IF ~HasCol(t, "satSys") THEN Raise("KeyError")
    ELSE LET d == AsStrCol(t, "satSys")
             pos == Exploded(d, satSystems, 1)
         IN Return(DataFrame(d.cols,
                             [k \in 1..Len(pos) |-> d.index[pos[k]]],
                             [k \in 1..Len(pos) |-> d.rows[pos[k]]]))

filter_satSys(t, satSystems) ==
    IF ~HasCol(t, "satSys") THEN Raise("KeyError")
    ELSE LET d == AsStrCol(t, "satSys")
             mask == [i \in 1..len(d) |->
                         \/ str_contains_nocase(d.rows[i]["satSys"], sAll)
                         \/ any_in(satSystems, d.rows[i]["satSys"])]
         IN Return(BoolIndex(d, mask))

\* normalize keeping the last matching type instead of returning at the first
RECURSIVE normalize_last(_, _)
normalize_last(types, instr) ==
    IF types = <<>> THEN instr
    ELSE LET rest == normalize_last(Tail(types), instr)
         IN IF rest # instr \/ ~IsSubstr(Head(types), instr) THEN rest ELSE Head(types)

RECURSIVE normalize(_, _)
normalize(types, instr) ==
    IF types = <<>> THEN instr
    ELSE IF IsSubstr(Head(types), instr) THEN Head(types)
    ELSE normalize(Tail(types), instr)

filter_instrClass(t, types, strict) ==
    IF ~HasCol(t, "instrClass") THEN Raise("KeyError")
    ELSE LET d == AsStrCol(t, "instrClass")
         IN IF strict
            THEN Return(BoolIndex(d, [i \in 1..len(d) |-> isin(d.rows[i]["instrClass"], types)]))
            ELSE LET mask == [i \in 1..len(d) |-> any_in(types, d.rows[i]["instrClass"])]
                     filtered == BoolIndex(d, mask)
                     \* filtered_df["instrClass"] = filtered_df["instrClass"].apply(normalize)
                     normalized == [i \in 1..len(filtered) |->
                                       [filtered.rows[i] EXCEPT
                                           !["instrClass"] = normalize(types, @)]]
                 IN Return(DataFrame(filtered.cols, filtered.index, normalized))

filter_owner(t, owners) ==
    IF ~HasCol(t, "owner") THEN Raise("KeyError")
    ELSE Return(BoolIndex(t, [i \in 1..len(t) |-> isin(t.rows[i]["owner"], owners)]))

filter_siteId(t, sites) ==
    IF ~HasCol(t, "siteId") THEN Raise("KeyError")
    ELSE Return(BoolIndex(t, [i \in 1..len(t) |-> isin(t.rows[i]["siteId"], sites)]))

filter_lookDir(t, directions) ==
    IF ~HasCol(t, "lookDir") THEN Raise("KeyError")
    ELSE LET d == AsStrCol(t, "lookDir")
             mask == [i \in 1..len(d) |-> any_in(directions, d.rows[i]["lookDir"])]
         IN Return(BoolIndex(d, mask))

\* the log line each filter prints
FilterLabel(name) ==
    CASE name = "filter_valid" -> "Valid filter"
      [] name = "filter_country" -> "Country filter"
      [] name = "filter_active" -> "Active targets filter"
      [] name = "filter_satSys" -> "Satellite system filter"
      [] name = "filter_instrClass" -> "Instrument class filter"
      [] name = "filter_owner" -> "Owner filter"
      [] name = "filter_siteId" -> "Site ID filter"
      [] name = "filter_lookDir" -> "Look direction filter"

\* a filter call as data: which filter, with which list and mode
Call(name, list, strict) == [args |-> list, name |-> name, strict |-> strict]
NoCall == Call("none", <<>>, FALSE)

Apply(f, t) ==
    CASE f.name = "filter_valid" -> filter_valid(t)
      [] f.name = "filter_country" -> filter_country(t, f.args)
      [] f.name = "filter_active" -> filter_active(t)
      [] f.name = "filter_satSys" -> filter_satSys(t, f.args)
      [] f.name = "filter_instrClass" -> filter_instrClass(t, f.args, f.strict)
      [] f.name = "filter_owner" -> filter_owner(t, f.args)
      [] f.name = "filter_siteId" -> filter_siteId(t, f.args)
      [] f.name = "filter_lookDir" -> filter_lookDir(t, f.args)

(***************************************************************************)
(* The tables the filter functions are called with.                        *)
(***************************************************************************)
Row(instr, own, site, country, end, look, ok, sat, lat, lon) ==
    [instrClass |-> instr, owner |-> own, siteId |-> site, countryCode |-> country,
     insarStart |-> 20200101, insarEnd |-> end, lookDir |-> look, latitude |-> lat,
     longitude |-> lon, refFrame |-> sETRS, valid |-> ok, satSys |-> sat]

BaseRow == Row(sCR, sTUD, sHENGELO, sNLD, ActiveSentinel, sE, TRUE, sAll, 52, 4)

\* the cell values each column takes besides the base row's
Variants ==
    [instrClass |-> {sCR123, sTR, NaN},
     owner |-> {sKNMI},
     siteId |-> {sDELFT},
     countryCode |-> {sBEL},
     insarEnd |-> {20231231},
     lookDir |-> {sEW},
     valid |-> {FALSE},
     satSys |-> {sS1ARS2, sTSX, sALL, NaN}]

\* the base row, and every row that differs from it in one filtered column
LibRows ==
    {BaseRow} \cup
    UNION {{[BaseRow EXCEPT ![c] = v] : v \in Variants[c]} : c \in DOMAIN Variants}

\* a frame as the loader leaves it: index labels 1..n (label 0 was dropped)
Loaded(rows) == DataFrame(columns, [i \in 1..Len(rows) |-> i], rows)

DropCol(t, c) == Project(t, SelectSeq(t.cols, LAMBDA x : x # c))

LibTables ==
    {Loaded(rows) : rows \in UNION {[1..n -> LibRows] : n \in 0..MaxRows}}
    \cup {DropCol(Loaded(<<BaseRow>>), c) : c \in DOMAIN Variants}

\* the argument lists the filters are called with
CountryArgs == {<<sNLD>>, <<sNLD, sBEL>>}
SatSysArgs == {<<>>, <<sS1A, sRS2>>, <<sa>>}
InstrArgs == {<<sCR>>, <<sCR, sCR123>>, <<sCR123, sCR>>}
OwnerArgs == {<<sTUD>>, <<sKNMI, sTUD>>}
SiteArgs == {<<sHENGELO>>, <<sDELFT>>}
LookArgs == {<<sE>>, <<sW>>}

Calls ==
    {Call("filter_valid", <<>>, FALSE), Call("filter_active", <<>>, FALSE)}
    \cup {Call("filter_country", a, FALSE) : a \in CountryArgs}
    \cup {Call("filter_satSys", a, FALSE) : a \in SatSysArgs}
    \cup {Call("filter_instrClass", a, s) : a \in InstrArgs, s \in BOOLEAN}
    \cup {Call("filter_owner", a, FALSE) : a \in OwnerArgs}
    \cup {Call("filter_siteId", a, FALSE) : a \in SiteArgs}
    \cup {Call("filter_lookDir", a, FALSE) : a \in LookArgs}

(***************************************************************************)
(* State outside the part a specification exercises.                       *)
(***************************************************************************)
NoStats == [before |-> 0, after |-> 0, name |-> "none", removed |-> 0, pctNum |-> 0, pctDen |-> 1]
NoArgs == [file |-> "none"]
NoSheet == [readable |-> FALSE]
EmptyMap == [x \in {} |-> x]
NoFolium == [built |-> FALSE]
\* an output file: not written by this run, or written with the given content
Absent == [written |-> FALSE]
File(content) == [written |-> TRUE, content |-> content]

PlotIdle ==
    /\ ret = "unset" /\ owner_color_map = EmptyMap /\ instr_icon_map = EmptyMap
    /\ m = NoFolium /\ geojson = Absent /\ html = Absent /\ msg = "none"

plotVars == <<ret, owner_color_map, instr_icon_map, m, geojson, html, msg>>
mainVars == <<args, sheet, trace, csv>>

(***************************************************************************)
(* The filters called as library functions, one after another, on the     *)
(* frame the caller holds.                                                 *)
(***************************************************************************)
InitLib ==
    /\ df \in LibTables
    /\ prev = df /\ last = NoCall /\ err = "none" /\ stats = NoStats
    /\ pc = "lib" /\ args = NoArgs /\ sheet = NoSheet /\ trace = <<>> /\ csv = Absent
    /\ PlotIdle

\* df = f(df): the frame is replaced by the filter's result, or the call raises
CallFilter(f) ==
    /\ pc = "lib" /\ err = "none" /\ last = NoCall
    /\ LET r == Apply(f, df)
       IN /\ prev' = df
          /\ last' = f
          /\ err' = r.exc
          /\ IF r.exc = "none"
             THEN /\ df' = r.df
                  /\ stats' = log_filter_stats(df, r.df, FilterLabel(f.name))
             ELSE UNCHANGED <<df, stats>>
    /\ UNCHANGED <<pc, mainVars, plotVars>>

CallValid == CallFilter(Call("filter_valid", <<>>, FALSE))
CallActive == CallFilter(Call("filter_active", <<>>, FALSE))
CallCountry == \E a \in CountryArgs : CallFilter(Call("filter_country", a, FALSE))
CallSatSys == \E a \in SatSysArgs : CallFilter(Call("filter_satSys", a, FALSE))
CallInstrClass ==
    \E a \in InstrArgs, s \in BOOLEAN : CallFilter(Call("filter_instrClass", a, s))
CallOwner == \E a \in OwnerArgs : CallFilter(Call("filter_owner", a, FALSE))
CallSiteId == \E a \in SiteArgs : CallFilter(Call("filter_siteId", a, FALSE))
CallLookDir == \E a \in LookArgs : CallFilter(Call("filter_lookDir", a, FALSE))

\* the caller goes on to its next statement with the frame it now holds: the
\* record of the call just made is dropped
NextStatement ==
    /\ pc = "lib" /\ err = "none" /\ last # NoCall
    /\ last' = NoCall /\ prev' = df /\ stats' = NoStats
    /\ UNCHANGED <<df, err, pc, mainVars, plotVars>>

NextLib ==
    \/ NextStatement
    \/ CallValid
    \/ CallActive
    \/ CallCountry
    \/ CallSatSys
    \/ CallInstrClass
    \/ CallOwner
    \/ CallSiteId
    \/ CallLookDir

Spec == InitLib /\ [][NextLib]_vars

(***************************************************************************)
(* plot_insar_points_interactive.                                          *)
(***************************************************************************)
\* the number of colours in matplotlib's TABLEAU_COLORS and CSS4_COLORS
TableauLen == 10
CSS4Len == 148

TABLEAU_COLORS == [i \in 1..TableauLen |-> <<"tab", i>>]
CSS4_COLORS == [i \in 1..CSS4Len |-> <<"css4", i>>]
icon_shapes == <<"circle", "triangle", "square", "star", "diamond">>

\* bool(x) of a path argument: None and the empty string are false
Truthy(path) == path \notin {"None", ""}

\* Series.dropna().unique(): the values in order of first appearance, NaN left out
RECURSIVE unique(_)
unique(vals) ==
    IF vals = <<>> THEN <<>>
    ELSE LET rest == unique(SubSeq(vals, 1, Len(vals) - 1))
             v == vals[Len(vals)]
         IN IF v = NaN \/ v \in Elems(rest) THEN rest ELSE Append(rest, v)

RECURSIVE insert(_, _)
insert(sortedSeq, v) ==
    IF sortedSeq = <<>> THEN <<v>>
    ELSE IF StrLess(v, Head(sortedSeq)) THEN <<v>> \o sortedSeq
    ELSE <<Head(sortedSeq)>> \o insert(Tail(sortedSeq), v)

\* the list the code would use had it left sorted() out
unsorted(vals) == vals

\* sorted(values) of distinct strings
RECURSIVE sorted(_)
sorted(vals) == IF vals = <<>> THEN <<>> ELSE insert(sorted(Tail(vals)), Head(vals))

Column(t, c) == [i \in 1..len(t) |-> t.rows[i][c]]

\* while len(colors) < len(owners): colors += CSS4_COLORS
RECURSIVE extend(_, _)
extend(colors, n) == IF Len(colors) < n THEN extend(colors \o CSS4_COLORS, n) ELSE colors

\* {owner: colors[i] for i, owner in enumerate(owners)}
build_owner_color_map(t) ==
    LET owners == sorted(unique(Column(t, "owner")))
        colors == extend(TABLEAU_COLORS, Len(owners))
    IN [o \in Elems(owners) |-> colors[CHOOSE i \in DOMAIN owners : owners[i] = o]]

\* {instr: icon_shapes[i % len(icon_shapes)] for i, instr in enumerate(instr_classes)}
build_instr_icon_map(t) ==
    LET instr_classes == sorted(unique(Column(t, "instrClass")))
    IN [c \in Elems(instr_classes) |->
           icon_shapes[(((CHOOSE i \in DOMAIN instr_classes : instr_classes[i] = c) - 1)
                        % Len(icon_shapes)) + 1]]

Sum(f) ==
    LET RECURSIVE S(_)
        S(i) == IF i = 0 THEN 0 ELSE f[i] + S(i - 1)
    IN S(Len(f))

popup_cols == <<"siteId", "owner", "instrClass", "countryCode">>

\* dict.get(key, default)
Get(map, key, default) == IF key \in DOMAIN map THEN map[key] ELSE default

\* one marker of the map: where it stands, how it looks, what its popup shows
Marker(t, row, colorMap, iconMap) ==
    LET color == Get(colorMap, row["owner"], "gray")
        shape == Get(iconMap, row["instrClass"], "circle")
    IN [color |-> color,
        shape |-> shape,
        location |-> <<row["latitude"], row["longitude"]>>,
        kind |-> IF shape = "circle" THEN "CircleMarker" ELSE "RegularPolygonMarker",
        popup |-> [c \in Elems(popup_cols) \cap Elems(t.cols) |-> row[c]]]

\* the GeoDataFrame: one point (lon, lat) per row, the row's cells as properties
GeoFrame(t) ==
    [crs |-> "EPSG:4326",
     features |-> [i \in 1..len(t) |->
                      [geometry |-> <<t.rows[i]["longitude"], t.rows[i]["latitude"]>>,
                       properties |-> t.rows[i]]]]

\* the basic checks without the test for the two coordinate columns
PlotChecks_noColumnCheck ==
    /\ pc = "plot"
    /\ IF len(df) = 0 \/ df.cols = <<>>
       THEN /\ msg' = "Error: No data to plot (DataFrame is empty)."
            /\ ret' = "None" /\ pc' = "returned"
       ELSE /\ pc' = "plot_maps" /\ UNCHANGED <<msg, ret>>
    /\ UNCHANGED <<df, prev, last, err, stats, mainVars, owner_color_map, instr_icon_map,
                   m, geojson, html>>

\* lines 198-206: the basic checks
PlotChecks ==
    /\ pc = "plot"
    /\ IF len(df) = 0 \/ df.cols = <<>>
       THEN /\ msg' = "Error: No data to plot (DataFrame is empty)."
            /\ ret' = "None" /\ pc' = "returned"
       ELSE IF ~HasCol(df, "latitude") \/ ~HasCol(df, "longitude")
       THEN /\ msg' = "Error: Missing latitude or longitude columns."
            /\ ret' = "None" /\ pc' = "returned"
       ELSE /\ pc' = "plot_maps" /\ UNCHANGED <<msg, ret>>
    /\ UNCHANGED <<df, prev, last, err, stats, mainVars, owner_color_map, instr_icon_map,
                   m, geojson, html>>

\* lines 208-223: the two symbol maps, the centre, the empty map.  df[owner_col],
\* df[instr_col], df[lat_col] and df[lon_col] raise KeyError on an absent column;
\* folium refuses a NaN centre (the mean of no rows)
PlotMaps ==
    /\ pc = "plot_maps"
    /\ IF \E c \in {"owner", "instrClass", "latitude", "longitude"} : ~HasCol(df, c)
       THEN /\ err' = "KeyError" /\ pc' = "raised"
            /\ UNCHANGED <<owner_color_map, instr_icon_map, m>>
       ELSE IF len(df) = 0
       THEN /\ err' = "ValueError" /\ pc' = "raised"
            /\ owner_color_map' = build_owner_color_map(df)
            /\ instr_icon_map' = build_instr_icon_map(df)
            /\ UNCHANGED m
       ELSE /\ owner_color_map' = build_owner_color_map(df)
            /\ instr_icon_map' = build_instr_icon_map(df)
            \* the centre is the mean: kept as the sums and the row count
            /\ m' = [built |-> TRUE,
                     center |-> [n |-> len(df),
                                 latSum |-> Sum(Column(df, "latitude")),
                                 lonSum |-> Sum(Column(df, "longitude"))],
                     markers |-> <<>>, title |-> "none", legend |-> <<>>]
            /\ pc' = "plot_markers" /\ UNCHANGED err
    /\ UNCHANGED <<df, prev, last, stats, mainVars, ret, geojson, html, msg>>

\* lines 225-281: a marker per row, the title, the legend
PlotMarkers ==
    /\ pc = "plot_markers"
    /\ m' = [m EXCEPT
                !.markers = [i \in 1..len(df) |->
                                Marker(df, df.rows[i], owner_color_map, instr_icon_map)],
                !.title = "map_title",
                !.legend = <<owner_color_map, instr_icon_map>>]
    /\ pc' = "plot_export"
    /\ UNCHANGED <<df, prev, last, err, stats, mainVars, ret, owner_color_map,
                   instr_icon_map, geojson, html, msg>>

\* lines 283-289: the GeoJSON file
PlotGeoJSON ==
    /\ pc = "plot_export"
    /\ geojson' = File(GeoFrame(df))
    /\ pc' = "plot_html"
    /\ UNCHANGED <<df, prev, last, err, stats, mainVars, ret, owner_color_map,
                   instr_icon_map, m, html, msg>>

\* lines 291-297: the HTML file, if a path was given; the map is returned
PlotHTML ==
    /\ pc = "plot_html"
    /\ html' = IF Truthy(args.save_html) THEN File(m) ELSE html
    /\ ret' = "Map" /\ pc' = "returned"
    /\ UNCHANGED <<df, prev, last, err, stats, mainVars, owner_color_map,
                   instr_icon_map, m, geojson, msg>>

(***************************************************************************)
(* The tables the plot function is called with.                            *)
(***************************************************************************)
OwnerNames == <<sTUD, sKNMI, sDLR, sESA, sGFZ, sBKG, sIGN, sNGI, sROB, sRWS, sSHN, sUPC,
                sASI, sTU>>
InstrNames == <<sCR, sTR, sIGRS, sCR123, sCRTR, sCR, NaN>>

\* the first n owner names, as they stand, reversed, or rotated by one
OwnerList(n, arrangement) ==
    [k \in 1..n |->
        CASE arrangement = "forward" -> OwnerNames[k]
          [] arrangement = "reversed" -> OwnerNames[n + 1 - k]
          [] arrangement = "rotated" -> OwnerNames[(k % n) + 1]]

OwnerLists ==
    {OwnerList(n, a) \o extra :
        n \in 0..MaxOwners, a \in {"forward", "reversed", "rotated"},
        extra \in {<<>>, <<sTUD>>, <<NaN>>}}

\* a frame with the given owners, row k standing at its own coordinates
PlotTable(owners) ==
    Loaded([k \in 1..Len(owners) |->
               Row(InstrNames[(k % Len(InstrNames)) + 1], owners[k], sHENGELO, sNLD,
                   ActiveSentinel, sE, TRUE, sAll, 50 + k, k)])

PlotTables ==
    UNION {{t, DropCol(t, "latitude"), DropCol(t, "longitude"), DropCol(t, "owner")} :
              t \in {PlotTable(o) : o \in OwnerLists}}

InitPlot ==
    /\ df \in PlotTables
    /\ prev = df /\ last = NoCall /\ err = "none" /\ stats = NoStats
    /\ pc = "plot"
    /\ args \in {[save_html |-> h, save_geojson |-> "insar_points.geojson"] :
                    h \in {"None", "", "insar_map.html"}}
    /\ sheet = NoSheet /\ trace = <<>> /\ csv = Absent
    /\ PlotIdle

NextPlot ==
    \/ PlotChecks
    \/ PlotMaps
    \/ PlotMarkers
    \/ PlotGeoJSON
    \/ PlotHTML

SpecPlot == InitPlot /\ [][NextPlot]_vars

(***************************************************************************)
(* read_insar_db and main().                                               *)
(***************************************************************************)
\* The sheet as pd.read_excel returns it: sheet.rows are the rows below the
\* file's nominal header row, each a list of cells.  The first of them holds
\* the column names; it is promoted to the header and dropped from the data.
read_insar_db(file, cols) ==
    IF ~file.readable THEN Raise("FileNotFoundError")
    ELSE IF file.rows = <<>> THEN Raise("IndexError")
    ELSE LET header == file.rows[1]
             body == Tail(file.rows)
             whole == DataFrame(header, [i \in 1..Len(body) |-> i],
                          [i \in 1..Len(body) |->
                              [c \in Elems(header) |->
                                  body[i][CHOOSE k \in DOMAIN header : header[k] = c]]])
         IN IF cols # <<>>
            THEN IF Elems(cols) \subseteq Elems(header)
                 THEN Return(Project(whole, cols))
                 ELSE Raise("KeyError")
            ELSE Return(whole)

\* the order of the statements of main() with the CSV dump placed before the filters
MisplacedOrder ==
    <<"load", "csv", "country", "valid", "active", "instrClass", "owner", "render", "plot">>

\* the order of the statements of main(); the last one is the call of the plot function
StageOrder ==
    <<"load", "country", "valid", "active", "instrClass", "owner", "csv", "render", "plot">>

Successor(order, stage) == order[(CHOOSE k \in DOMAIN order : order[k] = stage) + 1]

NextStage_csvFirst(stage) == Successor(MisplacedOrder, stage)

\* the statement that follows a stage of main()
NextStage(stage) == Successor(StageOrder, stage)

\* the frame before anything is loaded
NoFrame == DataFrame(<<>>, <<>>, <<>>)

\* one `if args.x: df = filter_x(df, ...)` statement of main()
MainFilter(stage, wanted, f) ==
    /\ pc = stage
    /\ IF wanted
       THEN LET r == Apply(f, df)
            IN /\ trace' = Append(trace, stage)
               /\ prev' = df /\ last' = f
               /\ err' = r.exc
               /\ IF r.exc = "none"
                  THEN /\ df' = r.df
                       /\ stats' = log_filter_stats(df, r.df, FilterLabel(f.name))
                       /\ pc' = NextStage(stage)
                  ELSE /\ pc' = "aborted" /\ UNCHANGED <<df, stats>>
       ELSE /\ pc' = NextStage(stage)
            /\ UNCHANGED <<df, prev, last, err, stats, trace>>
    /\ UNCHANGED <<args, sheet, csv, plotVars>>

\* df = read_insar_db(args.file, columns)
MainLoad ==
    /\ pc = "load"
    /\ trace' = Append(trace, "load")
    /\ LET r == read_insar_db(sheet, columns)
       IN /\ err' = r.exc
          /\ IF r.exc = "none"
             THEN df' = r.df /\ prev' = r.df /\ pc' = NextStage("load")
             ELSE pc' = "aborted" /\ UNCHANGED <<df, prev>>
    /\ UNCHANGED <<last, stats, args, sheet, csv, plotVars>>

MainCountry ==
    MainFilter("country", args.countries # <<>>, Call("filter_country", args.countries, FALSE))

MainValid == MainFilter("valid", args.valid, Call("filter_valid", <<>>, FALSE))

MainActive == MainFilter("active", args.active, Call("filter_active", <<>>, FALSE))

MainInstrClass ==
    MainFilter("instrClass", args.instrClass # <<>>,
               Call("filter_instrClass", args.instrClass, args.strict))

\* if args.owners: df = df[df["owner"].isin(args.owners)], written out in main()
MainOwner ==
    /\ pc = "owner"
    /\ IF args.owners # <<>>
       THEN /\ trace' = Append(trace, "owner")
            /\ prev' = df /\ last' = Call("main_owner", args.owners, FALSE)
            /\ IF HasCol(df, "owner")
               THEN /\ df' = BoolIndex(df, [i \in 1..len(df) |->
                                                isin(df.rows[i]["owner"], args.owners)])
                    /\ pc' = NextStage("owner") /\ UNCHANGED err
               ELSE /\ err' = "KeyError" /\ pc' = "aborted" /\ UNCHANGED df
       ELSE /\ pc' = NextStage("owner") /\ UNCHANGED <<df, prev, last, err, trace>>
    /\ UNCHANGED <<stats, args, sheet, csv, plotVars>>

\* if args.save_csv: df.to_csv(args.save_csv, index=False)
MainCsv ==
    /\ pc = "csv"
    /\ IF Truthy(args.save_csv)
       THEN /\ trace' = Append(trace, "csv")
            /\ csv' = File([cols |-> df.cols, rows |-> df.rows])
       ELSE UNCHANGED <<trace, csv>>
    /\ pc' = NextStage("csv")
    /\ UNCHANGED <<df, prev, last, err, stats, args, sheet, plotVars>>

\* plot_insar_points_interactive(df, ...): the call
MainRender ==
    /\ pc = "render"
    /\ trace' = Append(trace, "render")
    /\ pc' = NextStage("render")
    /\ UNCHANGED <<df, prev, last, err, stats, args, sheet, csv, plotVars>>

(***************************************************************************)
(* The command lines and the sheets main() is run with.                    *)
(***************************************************************************)
MainRows ==
    {BaseRow,
     Row(sCR123, sKNMI, sDELFT, sNLD, ActiveSentinel, sEW, TRUE, sS1ARS2, 53, 6),
     Row(sTR, sTUD, sDELFT, sDEU, 20231231, sW, FALSE, sTSX, 48, 11)}

Reverse(q) == [k \in 1..Len(q) |-> q[Len(q) + 1 - k]]

\* the sheet's columns: as main() lists them; with one more, in another order;
\* with "valid" missing
Headers ==
    {columns, <<"remarks">> \o Reverse(columns), SelectSeq(columns, LAMBDA c : c # "valid")}

Cells(header, row) ==
    [k \in 1..Len(header) |-> IF header[k] = "remarks" THEN <<"x">> ELSE row[header[k]]]

Sheets ==
    {[rows |-> <<>>, readable |-> FALSE], [rows |-> <<>>, readable |-> TRUE]}
    \cup {[rows |-> <<h>> \o [i \in 1..Len(rs) |-> Cells(h, rs[i])], readable |-> TRUE] :
             h \in Headers, rs \in UNION {[1..n -> MainRows] : n \in 0..MaxSheetRows}}

\* --active and --valid are store_true flags whose default is True
ArgSets ==
    [countries : {<<>>, <<sNLD, sBEL>>},
     strict : BOOLEAN,
     owners : {<<>>, <<sTUD>>},
     instrClass : {<<>>, <<sCR>>},
     valid : {TRUE},
     file : {"InSAR_designated_Target_Database.xlsx"},
     save_html : {"insar_map.html", ""},
     save_geojson : {"insar_points.geojson"},
     active : {TRUE},
     save_csv : {"None", "insar.csv"}]

InitMain ==
    /\ args \in ArgSets
    /\ sheet \in Sheets
    /\ pc = "load" /\ trace = <<>>
    /\ df = NoFrame /\ prev = NoFrame /\ last = NoCall /\ err = "none" /\ stats = NoStats
    /\ csv = Absent
    /\ PlotIdle

NextMain ==
    \/ MainLoad
    \/ MainCountry
    \/ MainValid
    \/ MainActive
    \/ MainInstrClass
    \/ MainOwner
    \/ MainCsv
    \/ MainRender
    \/ PlotChecks
    \/ PlotMaps
    \/ PlotMarkers
    \/ PlotGeoJSON
    \/ PlotHTML

SpecMain == InitMain /\ [][NextMain]_vars

(***************************************************************************)
(* Properties of the filters.                                              *)
(***************************************************************************)
\* a filter call has returned: df is its result on prev
Returned(name) == pc = "lib" /\ err = "none" /\ last.name = name

FilterNames ==
    {"filter_valid", "filter_country", "filter_active", "filter_satSys",
     "filter_instrClass", "filter_owner", "filter_siteId", "filter_lookDir"}

\* the position in frame t of the row labelled l
PosOf(t, l) == CHOOSE i \in 1..len(t) : t.index[i] = l

\* C1: whichever filter was called, with whichever argument list, the frame it
\* returned has no more rows than the frame it was given.
C1_FiltersNeverAddRows ==
    \A name \in FilterNames : Returned(name) => len(df) <= len(prev)

\* C1 witness: the satellite-system filter, called with S1A and RS2 on a frame of
\* MaxRows rows, has returned a shorter frame.
C1_Witness ==
    /\ Returned("filter_satSys") /\ len(prev) = MaxRows /\ len(df) < len(prev)
    /\ last.args = <<sS1A, sRS2>>

\* C2: a second application of filter_active, filter_valid, filter_owner,
\* filter_siteId or filter_country, with the same arguments, to the frame the
\* first application returned gives back that frame: same rows, order and cells.
C2_Idempotent ==
    \A name \in {"filter_active", "filter_valid", "filter_owner", "filter_siteId",
                 "filter_country"} :
        Returned(name) => Apply(last, df) = Return(df)

\* C2 witness: the owner filter has returned a frame from which it removed a row
\* and in which it kept one.
C2_Witness ==
    /\ Returned("filter_owner") /\ len(prev) = MaxRows /\ 0 < len(df) /\ len(df) < len(prev)

\* C3: every row the strict instrument-class filter kept is a row the non-strict
\* filter keeps, for the same frame and the same type list.
C3_StrictWithinNonStrict ==
    (Returned("filter_instrClass") /\ last.strict) =>
        Elems(df.index) \subseteq Elems(filter_instrClass(prev, last.args, FALSE).df.index)

\* C3 witness: the strict filter kept a row and dropped a row the non-strict one keeps.
C3_Witness ==
    /\ Returned("filter_instrClass") /\ last.strict
    /\ len(df) = 1
    /\ len(filter_instrClass(prev, last.args, FALSE).df) > 1

\* the first element of list S, in its order, that is a substring of x
FirstMatch(S, x) ==
    S[CHOOSE j \in DOMAIN S : IsSubstr(S[j], x) /\ \A k \in 1..(j - 1) : ~IsSubstr(S[k], x)]

\* C4: the non-strict instrument-class filter keeps exactly the rows whose
\* instrument class contains an element of the type list, and each kept row's
\* instrument class is rewritten to the first element of the list, in the
\* caller's order, that it contains: a member of the list.
C4_NonStrictNormalizes ==
    (Returned("filter_instrClass") /\ ~last.strict) =>
        LET S == last.args
            orig(i) == AsStr(prev.rows[i]["instrClass"])
        IN /\ \A i \in 1..len(prev) :
                  (prev.index[i] \in Elems(df.index)) <=> (\E t \in Elems(S) : IsSubstr(t, orig(i)))
           /\ \A k \in 1..len(df) :
                  /\ df.rows[k]["instrClass"] \in Elems(S)
                  /\ df.rows[k]["instrClass"] = FirstMatch(S, orig(PosOf(prev, df.index[k])))

\* C4 witness: with types ["CR"], of the rows "CR123" and "TR" the first is kept and
\* rewritten to "CR" and the second is dropped.
C4_Witness ==
    /\ Returned("filter_instrClass") /\ ~last.strict /\ last.args = <<sCR>>
    /\ len(prev) = 2
    /\ prev.rows[1]["instrClass"] = sCR123 /\ prev.rows[2]["instrClass"] = sTR
    /\ len(df) = 1 /\ df.rows[1]["instrClass"] = sCR

\* the text x holds the letters a, l, l in a row, each in either case
HasAllToken(x) ==
    \E i \in 1..(Len(x) - 2) :
        /\ x[i] \in {"A", "a"} /\ x[i + 1] \in {"L", "l"} /\ x[i + 2] \in {"L", "l"}

\* C5: filter_satSys keeps a row if and only if its satSys text holds "All" in any
\* case or holds a requested system as a substring.
C5_SatSysKeeps ==
    Returned("filter_satSys") =>
        \A i \in 1..len(prev) :
            LET x == AsStr(prev.rows[i]["satSys"])
            IN (prev.index[i] \in Elems(df.index)) <=>
                   (HasAllToken(x) \/ \E s \in Elems(last.args) : IsSubstr(s, x))

\* C5 witness: with no system requested, a row "All" is kept and a row "TSX" dropped.
C5_Witness ==
    /\ Returned("filter_satSys") /\ last.args = <<>>
    /\ len(prev) = 2
    /\ prev.rows[1]["satSys"] = sTSX /\ prev.rows[2]["satSys"] = sAll
    /\ df.index = <<2>>

\* C5 witness, second case: with S1A requested, a row "S1A,RS2" is kept.
C5_WitnessS1A ==
    /\ Returned("filter_satSys") /\ last.args = <<sS1A, sRS2>>
    /\ len(prev) = 1 /\ prev.rows[1]["satSys"] = sS1ARS2 /\ len(df) = 1

\* g after f
Then(r, g) == IF r.exc = "none" THEN Apply(g, r.df) ELSE r

PassesChecks(t) == len(t) > 0 /\ HasCol(t, "latitude") /\ HasCol(t, "longitude")

\* the call is over: it returned or it raised
PlotOver == pc \in {"returned", "raised"}

\* C6: called with a frame of no rows, or one lacking the latitude or the
\* longitude column, the plot function prints an error, never raises, never
\* writes the GeoJSON or the HTML file, and returns None.
C6_RejectedFrameWritesNothing ==
    (pc # "lib" /\ ~PassesChecks(df)) =>
        /\ err = "none" /\ pc # "raised"
        /\ geojson = Absent /\ html = Absent
        /\ pc \in {"plot", "returned"}
        /\ pc = "returned" => (ret = "None" /\ msg # "none")

\* C6 witness: the call on a frame with rows but no longitude column has returned.
C6_Witness ==
    /\ pc = "returned" /\ len(df) > 0 /\ ~HasCol(df, "longitude") /\ ret = "None"
    /\ args.save_html = "insar_map.html"

\* C6 witness, second case: the call on a frame of no rows has returned.
C6_WitnessEmpty == pc = "returned" /\ len(df) = 0 /\ ret = "None"

\* C7: once a call on a frame that passes the basic checks is over, the GeoJSON
\* file holds one point per row at the row's (longitude, latitude), and the HTML
\* file was written exactly if a path was given, after the GeoJSON file.
C7_RenderAlwaysExports ==
    /\ (PlotOver /\ PassesChecks(df)) =>
           /\ geojson.written
           /\ Len(geojson.content.features) = len(df)
           /\ \A i \in 1..len(df) :
                  geojson.content.features[i].geometry
                      = <<df.rows[i]["longitude"], df.rows[i]["latitude"]>>
           /\ html.written <=> Truthy(args.save_html)
    /\ html.written => geojson.written

\* the owners of a frame: the distinct non-null cells of its owner column
OwnerSet(t) == {t.rows[i]["owner"] : i \in 1..len(t)} \ {NaN}

\* the place of owner o among the owners S in ascending order
Rank(S, o) == Cardinality({p \in S : StrLess(p, o)}) + 1

\* the k-th colour of the palette: the Tableau colours, then the CSS4 colours as
\* often as needed
PaletteColor(k) ==
    IF k <= TableauLen THEN <<"tab", k>>
    ELSE <<"css4", ((k - TableauLen - 1) % CSS4Len) + 1>>

\* C8: the owner colour map has one entry per distinct non-null owner, the i-th
\* owner in ascending order holding the i-th palette colour; every frame with
\* the same owner set, whatever its rows, gets the same map.
C8_ColorMapPositional ==
    (pc # "lib" /\ m # NoFolium) =>
        /\ DOMAIN owner_color_map = OwnerSet(df)
        /\ \A o \in OwnerSet(df) : owner_color_map[o] = PaletteColor(Rank(OwnerSet(df), o))
        /\ \A t \in PlotTables :
               (HasCol(t, "owner") /\ OwnerSet(t) = OwnerSet(df)) =>
                   build_owner_color_map(t) = owner_color_map

\* C8 witness: the maps are built for a frame with more owners than Tableau has
\* colours, listed in descending order, one of them twice.
C8_Witness ==
    /\ pc = "returned" /\ ret = "Map"
    /\ Cardinality(OwnerSet(df)) > TableauLen
    /\ len(df) > Cardinality(OwnerSet(df))
    /\ StrLess(df.rows[2]["owner"], df.rows[1]["owner"])
    /\ \E o \in OwnerSet(df) : owner_color_map[o][1] = "css4"

(***************************************************************************)
(* Properties of main().                                                   *)
(***************************************************************************)
\* the order of the stages of a run
RunOrder ==
    <<"load", "country", "valid", "active", "instrClass", "owner", "csv", "render">>

PlaceOf(stage) == CHOOSE k \in DOMAIN RunOrder : RunOrder[k] = stage

C10_WitnessFullRun ==
    /\ pc = "returned" /\ trace = RunOrder
    /\ csv.written /\ geojson.written /\ html.written
    /\ len(df) > 0 /\ len(df) < Len(sheet.rows) - 1

====
